---- MODULE Spec2Model ----
(***************************************************************************)
(* PyHive (src/run.py): the hexagon grid that grows around occupied        *)
(* hexagons, the chips and their stacking links, the chip pool and the     *)
(* update step of PyHiveGame.run.                                          *)
(*                                                                         *)
(* Objects are named by tuples of four integers so that references can be  *)
(* compared:                                                               *)
(*   <<0,0,0,0>>        no hexagon (Python None)                          *)
(*   <<1,col,row,n>>    the n-th Hexagon created for grid coordinate      *)
(*                      (col,row): a second Hexagon built for the same    *)
(*                      coordinate is a different object                  *)
(*   <<2,0,0,0>>        the hexagon of the "add chip" icon (no col/row)   *)
(*   <<3,chip,n,0>>     a selection hexagon built for chip (no col/row)   *)
(* Chips are named by Chip.id: 0 is the PlusChip of the gui, 1..11 are the *)
(* chips of the pool in construction order.                                *)
(***************************************************************************)
EXTENDS Integers, Sequences, FiniteSets, TLC

\* ------------------------------------------------------------ bounds
\* Hexagons that expand_grid may be called on in GridSpec.
MaxExpand == 5
\* Spec: the clicks on the grid land on the coordinates (0,0)..(MaxCol,0).
MaxCol == 1
\* Length of PyHiveGame.chips in Spec.
MaxChips == 3
\* Chips 1..MaxApiChips are the arguments of the calls of ApiSpec.
MaxApiChips == 2
\* Chips 1..MaxWideChips are the arguments of the calls of WideApiSpec.
MaxWideChips == 3
\* Calls of ChipPool.pop in PoolSpec.
MaxPops == 12
\* Length of PyHiveGame.chips in DrawSpec: the 11 chips of the pool and one more.
MaxDraws == 12

\* ------------------------------------------------------------ constants
None == -1
add_chip == 0
ORIGIN == <<0, 0>>
INVERSE_COORD == <<-1, -1>>
NoHex == <<0, 0, 0, 0>>
GuiHex == <<2, 0, 0, 0>>

adjoin_directions == << <<0,-1>>, <<1,-1>>, <<1,0>>, <<0,1>>, <<-1,1>>, <<-1,0>> >>
adjoin_loop == << <<1,0>>, <<0,1>>, <<-1,1>>, <<-1,0>>, <<0,-1>>, <<1,-1>> >>

Keys == {adjoin_directions[i] : i \in 1..6}

\* tuple(map(operator.mul, key, INVERSE_COORD))
Mul(a, b) == <<a[1] * b[1], a[2] * b[2]>>
\* tuple(map(operator.add, a, b))
Add(a, b) == <<a[1] + b[1], a[2] + b[2]>>

\* Hexagon.init_adjoins
init_adjoins == [key \in Keys |-> NoHex]

\* hexagon.col != None and hexagon.row != None
HasCoords(h) == h[1] = 1
Coord(h) == <<h[2], h[3]>>

\* ChipPool.__init__: Bee, 2 Spider, 2 Beetle, 3 Grasshopper, 3 Ant
InitChipSet == << <<1>>, <<2, 3>>, <<4, 5>>, <<6, 7, 8>>, <<9, 10, 11>> >>
PoolChips == 1..11
AllChips == 0..11

VARIABLES
    hexagons,           \* PyHiveGame.hexagons: coordinate -> Hexagon
    adjoins,            \* Hexagon.adjoins of every grid Hexagon ever built
    expanded,           \* the Hexagons expand_grid has been called on
    hexagon,            \* Chip.hexagon, by chip
    selection_hexagon,  \* Chip.selection_hexagon, by chip
    stacked_chip,       \* Chip.stacked_chip, by chip
    covered_chip,       \* Chip.covered_chip, by chip
    chips,              \* PyHiveGame.chips
    selected_chip,      \* PyHiveGame.selected_chip
    chip_set,           \* ChipPool.chip_set
    _next,              \* ChipPool._next
    pops,               \* number of calls of ChipPool.pop so far
    call,               \* the last call: <<name, chip, chip, hexagon>>
    ret,                \* what the last pool call returned
    err                 \* "none", or the exception the last call raised

vars == <<hexagons, adjoins, expanded, hexagon, selection_hexagon, stacked_chip,
          covered_chip, chips, selected_chip, chip_set, _next, pops, call, ret, err>>

\* The program state as one record, so that a method is an operator from
\* state to state and a handler is the composition of the methods it calls.
Cur ==
    [hexagons |-> hexagons, adjoins |-> adjoins, expanded |-> expanded,
     hexagon |-> hexagon, selection_hexagon |-> selection_hexagon,
     stacked_chip |-> stacked_chip, covered_chip |-> covered_chip,
     chips |-> chips, selected_chip |-> selected_chip,
     chip_set |-> chip_set, _next |-> _next, pops |-> pops,
     ret |-> None, err |-> "none"]

Becomes(s, c) ==
    /\ hexagons' = s.hexagons
    /\ adjoins' = s.adjoins
    /\ expanded' = s.expanded
    /\ hexagon' = s.hexagon
    /\ selection_hexagon' = s.selection_hexagon
    /\ stacked_chip' = s.stacked_chip
    /\ covered_chip' = s.covered_chip
    /\ chips' = s.chips
    /\ selected_chip' = s.selected_chip
    /\ chip_set' = s.chip_set
    /\ _next' = s._next
    /\ pops' = s.pops
    /\ ret' = s.ret
    /\ err' = s.err
    /\ call' = c

\* ------------------------------------------------------------ ChipPool

\* ChipPool.peek
peek(s) ==
    IF s.chip_set = <<>> \/ s.chip_set[s._next + 1] = <<>>
    THEN None
    ELSE s.chip_set[s._next + 1][1]

\* del self.chip_set[self._next]
DelGroup(cs, i) == [j \in 1..(Len(cs) - 1) |-> IF j < i THEN cs[j] ELSE cs[j + 1]]

\* pop that leaves the emptied list in chip_set
pop_keeps_empty(s) ==
    LET s0 == [s EXCEPT !.pops = @ + 1] IN
    IF s.chip_set = <<>> \/ s.chip_set[s._next + 1] = <<>>
    THEN [s0 EXCEPT !.ret = None]
    ELSE [s0 EXCEPT !.chip_set = [s.chip_set EXCEPT ![s._next + 1] = Tail(@)],
                    !.ret = s.chip_set[s._next + 1][1]]

\* pop that deletes the emptied list and leaves _next as it was
pop_keeps_next(s) ==
    LET s0 == [s EXCEPT !.pops = @ + 1] IN
    IF s.chip_set = <<>> \/ s.chip_set[s._next + 1] = <<>>
    THEN [s0 EXCEPT !.ret = None]
    ELSE
        LET popped == s.chip_set[s._next + 1][1]
            removed == [s.chip_set EXCEPT ![s._next + 1] = Tail(@)]
        IN  IF removed[s._next + 1] = <<>>
            THEN [s0 EXCEPT !.chip_set = DelGroup(removed, s._next + 1), !.ret = popped]
            ELSE [s0 EXCEPT !.chip_set = removed, !.ret = popped]

\* ChipPool.pop
pop(s) ==
    LET s0 == [s EXCEPT !.pops = @ + 1] IN
    IF s.chip_set = <<>> \/ s.chip_set[s._next + 1] = <<>>
    THEN [s0 EXCEPT !.ret = None]
    ELSE
        LET popped == s.chip_set[s._next + 1][1]
            removed == [s.chip_set EXCEPT ![s._next + 1] = Tail(@)]
        IN  IF removed[s._next + 1] = <<>>
            THEN
                LET deleted == DelGroup(removed, s._next + 1) IN
                [s0 EXCEPT !.chip_set = deleted,
                           !._next = IF deleted # <<>> THEN s._next % Len(deleted) ELSE 0,
                           !.ret = popped]
            ELSE [s0 EXCEPT !.chip_set = removed, !.ret = popped]

\* ChipPool.next
next(s) ==
    LET s1 == [s EXCEPT !._next = (s._next + 1) % (IF s.chip_set # <<>> THEN Len(s.chip_set) ELSE 1)]
    IN  [s1 EXCEPT !.ret = peek(s1)]

\* ------------------------------------------------------------ Hexagon grid

\* Hexagon(...): a new object; for a grid coordinate it is named by the
\* number of Hexagons already built for that coordinate.
NewHexagon(adj, axial_coords) ==
    <<1, axial_coords[1], axial_coords[2],
      Cardinality({h \in DOMAIN adj : Coord(h) = axial_coords})>>

\* expand_grid with its first loop one iteration short (range(5)): the space
\* at the last key is never built.
RECURSIVE EnsureAdjoiningFive(_, _, _)
EnsureAdjoiningFive(s, h, key_index) ==
    IF key_index > 5 THEN s
    ELSE
        LET key == adjoin_directions[key_index]
            inverse_key == Mul(key, INVERSE_COORD)
        IN  IF s.adjoins[h][key] # NoHex
            THEN EnsureAdjoiningFive(s, h, key_index + 1)
            ELSE
                LET axial_coords == Add(Coord(h), key)
                    new_hexagon == NewHexagon(s.adjoins, axial_coords)
                    built == (new_hexagon :> init_adjoins) @@ s.adjoins
                    s1 == [s EXCEPT
                             !.hexagons = (axial_coords :> new_hexagon) @@ s.hexagons,
                             !.adjoins = [built EXCEPT ![h][key] = new_hexagon,
                                                       ![new_hexagon][inverse_key] = h]]
                IN  EnsureAdjoiningFive(s1, h, key_index + 1)

\* expand_grid, first loop, iterations key_index..5 (key_index counts from 1 here)
RECURSIVE EnsureAdjoining(_, _, _)
EnsureAdjoining(s, h, key_index) ==
    IF key_index > 6 THEN s
    ELSE
        LET key == adjoin_directions[key_index]
            inverse_key == Mul(key, INVERSE_COORD)
        IN  IF s.adjoins[h][key] # NoHex
            THEN EnsureAdjoining(s, h, key_index + 1)
            ELSE
                LET axial_coords == Add(Coord(h), key)
                    new_hexagon == NewHexagon(s.adjoins, axial_coords)
                    built == (new_hexagon :> init_adjoins) @@ s.adjoins
                    s1 == [s EXCEPT
                             !.hexagons = (axial_coords :> new_hexagon) @@ s.hexagons,
                             !.adjoins = [built EXCEPT ![h][key] = new_hexagon,
                                                       ![new_hexagon][inverse_key] = h]]
                IN  EnsureAdjoining(s1, h, key_index + 1)

\* expand_grid with the keys of its second loop taken from adjoin_directions
\* where adjoin_loop is meant.
RECURSIVE LinkAdjoiningByDirection(_, _, _)
LinkAdjoiningByDirection(s, h, key_index) ==
    IF key_index > 6 THEN s
    ELSE
        LET first_key == adjoin_directions[key_index]
            second_key == adjoin_directions[(key_index % 6) + 1]
            first == s.adjoins[h][first_key]
            second == s.adjoins[h][second_key]
            cw_key == adjoin_directions[key_index]
            acw_key == Mul(cw_key, INVERSE_COORD)
            a1 == [s.adjoins EXCEPT ![first][cw_key] = second]
            a2 == [a1 EXCEPT ![second][acw_key] = first]
        IN  LinkAdjoiningByDirection([s EXCEPT !.adjoins = a2], h, key_index + 1)

\* expand_grid, second loop, iterations key_index..5 (key_index counts from 1 here)
RECURSIVE LinkAdjoining(_, _, _)
LinkAdjoining(s, h, key_index) ==
    IF key_index > 6 THEN s
    ELSE
        LET first_key == adjoin_directions[key_index]
            second_key == adjoin_directions[(key_index % 6) + 1]
            first == s.adjoins[h][first_key]
            second == s.adjoins[h][second_key]
            cw_key == adjoin_loop[key_index]
            acw_key == Mul(cw_key, INVERSE_COORD)
            a1 == [s.adjoins EXCEPT ![first][cw_key] = second]
            a2 == [a1 EXCEPT ![second][acw_key] = first]
        IN  LinkAdjoining([s EXCEPT !.adjoins = a2], h, key_index + 1)

\* PyHiveGame.expand_grid
expand_grid(s, h) ==
    LinkAdjoining(EnsureAdjoining([s EXCEPT !.expanded = @ \cup {h}], h, 1), h, 1)

\* ------------------------------------------------------------ Chip

\* Chip.unstack_chip, "Disassociate chips"
Disassociate(s, chip) ==
    IF s.covered_chip[chip] # None
    THEN [s EXCEPT !.stacked_chip[s.covered_chip[chip]] = None,
                   !.covered_chip[chip] = None]
    ELSE s

\* unstack_chip that clears its own link and leaves the covered chip's
\* stacked_chip as it was.
unstack_chip_one_sided(s, chip) ==
    IF s.stacked_chip[chip] # None
    THEN [s EXCEPT !.err = "ValueError"]
    ELSE [s EXCEPT !.covered_chip[chip] = None,
                   !.stacked_chip[chip] = None,
                   !.selection_hexagon[chip] = NoHex]

\* unstack_chip that looks for a chip on top after it has cleared the links
\* and the selection hexagon.
unstack_chip_check_last(s, chip) ==
    IF s.stacked_chip[chip] # None
    THEN [Disassociate(s, chip) EXCEPT !.selection_hexagon[chip] = NoHex,
                                       !.err = "ValueError"]
    ELSE [Disassociate(s, chip) EXCEPT !.stacked_chip[chip] = None,
                                       !.selection_hexagon[chip] = NoHex]

\* Chip.unstack_chip
unstack_chip(s, chip) ==
    IF s.stacked_chip[chip] # None
    THEN [s EXCEPT !.err = "ValueError"]
    ELSE [Disassociate(s, chip) EXCEPT !.stacked_chip[chip] = None,
                                       !.selection_hexagon[chip] = NoHex]

\* Chip.top_of_stack; the recursion is cut after as many links as there are
\* chips, where a cyclic chain would make the Python recursion overflow.
RECURSIVE TopFrom(_, _, _)
TopFrom(s, chip, fuel) ==
    IF s.stacked_chip[chip] # None /\ fuel > 0
    THEN TopFrom(s, s.stacked_chip[chip], fuel - 1)
    ELSE chip

\* top_of_stack that returns self whatever lies on top
top_of_stack_self(s, chip) == chip

\* top_of_stack that returns the chip on top of it where it should ask that chip
top_of_stack_one_step(s, chip) ==
    IF s.stacked_chip[chip] # None THEN s.stacked_chip[chip] ELSE chip

top_of_stack(s, chip) == TopFrom(s, chip, Cardinality(AllChips))

\* Hexagon(hexagon.center, hexagon.radius, hexagon.color) in set_grid_pos: a new
\* object, named by the least number no live reference to a selection hexagon
\* of this chip carries.
NewSelectionHexagon(s, chip) ==
    LET used == {n \in 0..Cardinality(AllChips) :
                    \E c \in AllChips : \/ s.hexagon[c] = <<3, chip, n, 0>>
                                        \/ s.selection_hexagon[c] = <<3, chip, n, 0>>}
    IN  <<3, chip, CHOOSE n \in 0..(Cardinality(AllChips) + 1) :
                      n \notin used /\ \A m \in 0..(n - 1) : m \in used, 0>>

\* ------------------------------------------------------------ PyHiveGame

\* set_grid_pos: "if not chip.selection_hexagon: chip.selection_hexagon = Hexagon(...)"
MarkSelection(s, chip) ==
    IF s.selection_hexagon[chip] = NoHex
    THEN [s EXCEPT !.selection_hexagon[chip] = NewSelectionHexagon(s, chip)]
    ELSE s

\* set_grid_pos: "if hexagon.col != None and hexagon.row != None: self.expand_grid(hexagon)"
MakeSpace(s, h) == IF HasCoords(h) THEN expand_grid(s, h) ELSE s

\* set_grid_pos after chip.unstack_chip() returned or raised; a None hexagon
\* raises AttributeError at hexagon.center, after chip.hexagon was assigned.
Reposition(s, chip, h) ==
    IF s.err # "none" THEN s
    ELSE IF h = NoHex
    THEN [s EXCEPT !.hexagon[chip] = NoHex, !.err = "AttributeError"]
    ELSE MakeSpace(MarkSelection([s EXCEPT !.hexagon[chip] = h], chip), h)

\* set_grid_pos without chip.unstack_chip()
set_grid_pos_keeps_links(s, chip, h) ==
    IF chip = None THEN s
    ELSE Reposition(s, chip, h)

\* PyHiveGame.set_grid_pos
set_grid_pos(s, chip, h) ==
    IF chip = None THEN s
    ELSE Reposition(unstack_chip(s, chip), chip, h)

\* stack_on_chip with the two links assigned the wrong way round
Associate_reversed(s, stacked, covered) ==
    IF s.err # "none" THEN s
    ELSE [s EXCEPT !.stacked_chip[stacked] = covered,
                   !.covered_chip[covered] = stacked]

\* stack_on_chip after set_grid_pos returned or raised
Associate(s, stacked, covered) ==
    IF s.err # "none" THEN s
    ELSE [s EXCEPT !.stacked_chip[covered] = stacked,
                   !.covered_chip[stacked] = covered]

\* stack_on_chip without "if stacked_chip != covered_chip"
stack_on_chip_self(s, stacked, covered) ==
    Associate(set_grid_pos(s, stacked, s.selection_hexagon[covered]), stacked, covered)

\* PyHiveGame.stack_on_chip
stack_on_chip(s, stacked, covered) ==
    IF stacked # covered
    THEN Associate(set_grid_pos(s, stacked, s.selection_hexagon[covered]), stacked, covered)
    ELSE s

\* get_new_chip after set_grid_pos(new_chip, self.add_chip.hexagon)
TakeInHand(s, new_chip) ==
    IF s.err # "none" THEN s
    ELSE [s EXCEPT !.chips = Append(@, new_chip), !.selected_chip = new_chip]

\* get_new_chip without "if not new_chip: return None"
PlaceNewChip_unchecked(s) == TakeInHand(set_grid_pos(s, s.ret, s.hexagon[add_chip]), s.ret)

\* get_new_chip from "if not new_chip" on; s.ret is new_chip
PlaceNewChip(s) ==
    IF s.ret = None THEN s
    ELSE TakeInHand(set_grid_pos(s, s.ret, s.hexagon[add_chip]), s.ret)

\* get_new_chip that takes the chip out of the pool when it comes into the hand
get_new_chip_pops(s) == PlaceNewChip(pop(s))

\* PyHiveGame.get_new_chip
get_new_chip(s) ==
    PlaceNewChip(IF s.selected_chip = peek(s) THEN next(s) ELSE [s EXCEPT !.ret = peek(s)])

\* release_selected_chip that leaves the chip in the pool
release_without_pop(s) == [s EXCEPT !.selected_chip = None]

\* release_selected_chip without its last line
release_keeps_selected(s) == IF s.selected_chip = peek(s) THEN pop(s) ELSE s

\* PyHiveGame.release_selected_chip
release_selected_chip(s) ==
    [(IF s.selected_chip = peek(s) THEN pop(s) ELSE s) EXCEPT !.selected_chip = None]

\* PyHiveGame.init_hexagons
init_hexagons(s) ==
    [s EXCEPT !.hexagons = (ORIGIN :> <<1, 0, 0, 0>>),
              !.adjoins = (<<1, 0, 0, 0>> :> init_adjoins)]

\* PyHiveGame.init_gui
init_gui(s) == set_grid_pos(s, add_chip, GuiHex)

\* PyHiveGame.init_chips
init_chips(s) ==
    get_new_chip([s EXCEPT !.chips = <<>>, !.chip_set = InitChipSet, !._next = 0,
                           !.selected_chip = None])

\* Nothing is built yet.
Blank ==
    [hexagons |-> <<>>, adjoins |-> <<>>, expanded |-> {},
     hexagon |-> [c \in AllChips |-> NoHex],
     selection_hexagon |-> [c \in AllChips |-> NoHex],
     stacked_chip |-> [c \in AllChips |-> None],
     covered_chip |-> [c \in AllChips |-> None],
     chips |-> <<>>, selected_chip |-> None,
     chip_set |-> <<>>, _next |-> 0, pops |-> 0,
     ret |-> None, err |-> "none"]

\* PyHiveGame.__init__
Constructed == init_chips(init_gui(init_hexagons(Blank)))

NoCall == <<"__init__", None, None, NoHex>>

StateIs(s, c) ==
    /\ hexagons = s.hexagons
    /\ adjoins = s.adjoins
    /\ expanded = s.expanded
    /\ hexagon = s.hexagon
    /\ selection_hexagon = s.selection_hexagon
    /\ stacked_chip = s.stacked_chip
    /\ covered_chip = s.covered_chip
    /\ chips = s.chips
    /\ selected_chip = s.selected_chip
    /\ chip_set = s.chip_set
    /\ _next = s._next
    /\ pops = 0
    /\ ret = None
    /\ err = "none"
    /\ call = c

Init == StateIs(Constructed, NoCall)

\* ------------------------------------------------------------ PyHiveGame.run

NoClick == <<>>

\* PyHiveGame.clicked_chip, where chip is the first of self.chips the mouse is on
clicked_chip(s, chip) == top_of_stack(s, chip)

\* run: release_selected_chip() follows unless the call before it raised
ThenRelease(s) == IF s.err # "none" THEN s ELSE release_selected_chip(s)

\* run, "# Update": "if selected: ..."
UpdateSelected(s, selected) ==
    IF selected # None
    THEN IF selected = add_chip
         THEN get_new_chip(s)
         ELSE IF s.selected_chip # None
              THEN ThenRelease(stack_on_chip(s, s.selected_chip, selected))
              ELSE [s EXCEPT !.selected_chip = top_of_stack(s, selected)]
    ELSE s

\* run, "# Update": "if self.selected_chip and click and self.hexagons.has_key(click): ..."
UpdateClick(s, click) ==
    IF s.err = "none" /\ s.selected_chip # None /\ click # NoClick
       /\ click \in DOMAIN s.hexagons
    THEN ThenRelease(set_grid_pos(s, s.selected_chip, s.hexagons[click]))
    ELSE s

\* The "# Update" part of the loop of PyHiveGame.run, for the selected and
\* click the events of the frame produced.  An exception leaves the loop.
Update(s, selected, click) == UpdateClick(UpdateSelected(s, selected), click)

\* expand_grid is called on at most bound Hexagons.
WithinBoard(h, bound) == h \in expanded \/ Cardinality(expanded) < bound

\* The coordinates (0,0)..(maxcol,0).
InRow(coord, maxcol) == coord[2] = 0 /\ coord[1] \in 0..maxcol

\* self.chips holds at most MaxChips entries.
BecomesWithin(s, c) == Len(s.chips) <= MaxChips /\ Becomes(s, c)

\* A left click on the "add chip" icon: selected = self.add_chip.
AddChipClick ==
    /\ err = "none"
    /\ BecomesWithin(Update(Cur, add_chip, NoClick), <<"add_chip", None, None, NoHex>>)

\* hexagon.center as a place: <<1, col, row, level>> for the Hexagon of a grid
\* coordinate (level 0) and, level by level, for the selection hexagon of the
\* chip that lies there (set_grid_pos puts it STACK_OFFSET above the chip's
\* hexagon when the chip is positioned); <<2, 0, 0, level>> likewise for the icon.
RECURSIVE center(_, _, _)
center(s, h, fuel) ==
    IF h[1] = 3 /\ fuel > 0
    THEN [center(s, s.hexagon[h[2]], fuel - 1) EXCEPT ![4] = @ + 1]
    ELSE IF h[1] = 1 THEN <<1, h[2], h[3], 0>> ELSE h

\* Chip.is_mouse_on is a disc around chip.hexagon.center: the mouse positions
\* on two chips are the same exactly when the centres are.
SameCenter(s, c, d) ==
    center(s, s.hexagon[c], Cardinality(AllChips)) = center(s, s.hexagon[d], Cardinality(AllChips))

\* A left click on a chip of self.chips that lies on the board: the icon is
\* tested first and shares its hexagon with the chips in the hand, and of the
\* chips with one centre clicked_chip finds the first of self.chips.
ChipClick(chip) ==
    /\ err = "none"
    /\ \E i \in 1..Len(chips) :
          chips[i] = chip /\ \A j \in 1..(i - 1) : ~SameCenter(Cur, chips[j], chip)
    /\ hexagon[chip] # NoHex
    /\ ~SameCenter(Cur, chip, add_chip)
    /\ Becomes(Update(Cur, clicked_chip(Cur, chip), NoClick),
               <<"chip", chip, None, NoHex>>)

\* A left click that is on no chip and that screen_to_axial resolves to
\* a coordinate of self.hexagons.  The hexagon at that coordinate may hold a
\* chip: is_mouse_on is a disc of RADIUS 50 around the centre of the chip's
\* hexagon, screen_to_axial a rectangle of 75 by 86.6 around the centre of the
\* coordinate, and the corners of the rectangle lie outside the disc (with a
\* chip on (0,0), centre (400,300), the click at (435,342) is 54.7 from the
\* centre, on no chip, and resolves to (0,0)).
CellClick(coord) ==
    /\ err = "none"
    /\ coord \in DOMAIN hexagons
    /\ InRow(coord, MaxCol)
    /\ Becomes(Update(Cur, None, coord), <<"cell", None, None, hexagons[coord]>>)

Next ==
    \/ AddChipClick
    \/ \E chip \in PoolChips : ChipClick(chip)
    \/ \E coord \in DOMAIN hexagons : CellClick(coord)

Spec == Init /\ [][Next]_vars

\* The "# Update" part of run with selected the top of the stack of any chip of
\* self.chips that has a hexagon, the chips at the icon among them (the event
\* part of run resolves a position on those to the icon).
ChipCommand(chip) ==
    /\ err = "none"
    /\ \E i \in 1..Len(chips) : chips[i] = chip
    /\ hexagon[chip] # NoHex
    /\ Becomes(Update(Cur, clicked_chip(Cur, chip), NoClick),
               <<"chip", chip, None, NoHex>>)

UpdateNext ==
    \/ AddChipClick
    \/ \E chip \in PoolChips : ChipCommand(chip)
    \/ \E coord \in DOMAIN hexagons : CellClick(coord)

UpdateSpec == Init /\ [][UpdateNext]_vars

\* self.chips holds at most bound entries.
BecomesUpTo(s, c, bound) == Len(s.chips) <= bound /\ Becomes(s, c)

\* A left click on the "add chip" icon, as AddChipClick, with up to MaxDraws
\* entries in self.chips.
DrawClick ==
    /\ err = "none"
    /\ BecomesUpTo(Update(Cur, add_chip, NoClick), <<"add_chip", None, None, NoHex>>, MaxDraws)

\* A left click on a chip of the board while no chip is selected.
SelectClick(chip) == selected_chip = None /\ ChipClick(chip)

\* The game in which every chip of the pool is drawn and put on (0,0), and
\* chips of the board are taken in the hand and put back: it empties the pool.
DrawNext ==
    \/ DrawClick
    \/ CellClick(ORIGIN)
    \/ \E chip \in PoolChips : SelectClick(chip)

DrawSpec == Init /\ [][DrawNext]_vars

\* ------------------------------------------------------------ calls from outside

\* set_grid_pos(chip, self.hexagons[coord])
SetGridPosCall(chip, coord) ==
    /\ coord \in DOMAIN hexagons
    /\ Becomes(set_grid_pos(Cur, chip, hexagons[coord]),
               <<"set_grid_pos", chip, None, hexagons[coord]>>)

\* stack_on_chip(stacked, covered)
StackOnChipCall(stacked, covered) ==
    /\ {stacked, covered} \subseteq PoolChips
    /\ Becomes(stack_on_chip(Cur, stacked, covered), <<"stack_on_chip", stacked, covered, NoHex>>)

\* chip.unstack_chip()
UnstackChipCall(chip) ==
    /\ chip \in PoolChips
    /\ Becomes(unstack_chip(Cur, chip), <<"unstack_chip", chip, None, NoHex>>)

\* Any call of set_grid_pos on the hexagon at ORIGIN, of stack_on_chip and of
\* unstack_chip, with chips 1..n.
ApiCalls(n) ==
    \/ \E chip \in 1..n : SetGridPosCall(chip, ORIGIN)
    \/ \E stacked \in 1..n : \E covered \in 1..n : StackOnChipCall(stacked, covered)
    \/ \E chip \in 1..n : UnstackChipCall(chip)

ApiNext == ApiCalls(MaxApiChips)

ApiSpec == Init /\ [][ApiNext]_vars

WideApiNext == ApiCalls(MaxWideChips)

WideApiSpec == Init /\ [][WideApiNext]_vars

\* Placements of one chip on the hexagons of the grid, each of which expands
\* the grid around the hexagon.
GridNext ==
    \E coord \in DOMAIN hexagons : WithinBoard(hexagons[coord], MaxExpand) /\ SetGridPosCall(1, coord)

GridSpec == Init /\ [][GridNext]_vars

\* chip_pool.peek()
PeekCall ==
    /\ pops <= MaxPops
    /\ Becomes([Cur EXCEPT !.ret = peek(Cur)], <<"peek", None, None, NoHex>>)

\* chip_pool.pop()
PopCall ==
    /\ pops < MaxPops
    /\ Becomes(pop(Cur), <<"pop", None, None, NoHex>>)

\* chip_pool.next()
NextCall ==
    /\ pops <= MaxPops
    /\ Becomes(next(Cur), <<"next", None, None, NoHex>>)

PoolNext == PeekCall \/ PopCall \/ NextCall

PoolSpec == Init /\ [][PoolNext]_vars

\* ------------------------------------------------------------ the grid (GridSpec)

Origin == <<1, 0, 0, 0>>

\* the six coordinates around (0,0) and (0,0) itself
AroundOrigin == {<<0,-1>>, <<1,-1>>, <<1,0>>, <<0,1>>, <<-1,1>>, <<-1,0>>, <<0,0>>}

\* hexagon a has hexagon b in its table of adjoining spaces
Adjoins(a, b) == \E key \in Keys : adjoins[a][key] = b

\* C1 (as claimed): once self.hexagons maps a coordinate to a Hexagon, every
\* later state maps that coordinate to the same Hexagon: no placement builds a
\* second Hexagon for a coordinate that has one.
C1_NeverRecreated ==
    [][\A coord \in DOMAIN hexagons :
          coord \in DOMAIN hexagons' /\ hexagons'[coord] = hexagons[coord]]_vars

\* C2 (as claimed): the links are reciprocal: for every Hexagon c ever built
\* and every direction key, if c.adjoins[key] is d then d.adjoins[-key] is c.
C2_Reciprocal ==
    \A c \in DOMAIN adjoins : \A key \in Keys :
        adjoins[c][key] # NoHex => adjoins[adjoins[c][key]][Mul(key, INVERSE_COORD)] = c

\* C9: from the grid that holds only (0,0), the placement on (0,0) leaves the
\* grid with exactly the coordinates (0,-1), (1,-1), (1,0), (0,1), (-1,1),
\* (-1,0) and (0,0), seven Hexagons in all, each a new one.
C9_SixAroundOrigin ==
    [][(DOMAIN hexagons = {ORIGIN} /\ call'[4] = Origin)
        => /\ DOMAIN hexagons' = AroundOrigin
           /\ Cardinality(DOMAIN adjoins') = 7
           /\ \A coord \in AroundOrigin : Coord(hexagons'[coord]) = coord
           /\ hexagons'[ORIGIN] = Origin]_vars

C9_Witness ==
    /\ expanded = {Origin}
    /\ call[4] = Origin
    /\ Cardinality(DOMAIN hexagons) = 7

\* exactly (0,0) and then (1,0) have been expanded
ExpandedOriginThenEast == expanded = {Origin, <<1, 1, 0, 0>>}

\* C10 (as claimed): after expanding around (0,0) and then around (1,0) the
\* Hexagons at (1,-1) and (0,1) are in each other's table of adjoining spaces.
C10_DirectlyLinked ==
    ExpandedOriginThenEast
        => /\ Adjoins(hexagons[<<1,-1>>], hexagons[<<0,1>>])
           /\ Adjoins(hexagons[<<0,1>>], hexagons[<<1,-1>>])

\* c is in the ring of h at position key_index and linked with the next of the ring
RingLinked(h, key_index) ==
    LET first == adjoins[h][adjoin_directions[key_index]]
        second == adjoins[h][adjoin_directions[(key_index % 6) + 1]]
        cw_key == adjoin_loop[key_index]
    IN  /\ first # NoHex
        /\ second # NoHex
        /\ adjoins[first][cw_key] = second
        /\ adjoins[second][Mul(cw_key, INVERSE_COORD)] = first
        /\ Coord(second) = Add(Coord(first), cw_key)

\* C10 (amended): after expanding around (0,0) and then around (1,0), every two
\* consecutive Hexagons of the ring around (1,0) are in each other's table, at
\* the key that is the difference of their coordinates; (1,-1) and (0,1), which
\* are not consecutive in that ring, are each linked with (1,0) and with (0,0)
\* and not with each other.
C10_RingLinked ==
    ExpandedOriginThenEast
        => /\ \A key_index \in 1..6 : RingLinked(hexagons[<<1,0>>], key_index)
           /\ \A c \in {hexagons[<<1,-1>>], hexagons[<<0,1>>]} :
                 /\ Adjoins(c, hexagons[<<1,0>>]) /\ Adjoins(hexagons[<<1,0>>], c)
                 /\ Adjoins(c, hexagons[<<0,0>>]) /\ Adjoins(hexagons[<<0,0>>], c)
           /\ ~Adjoins(hexagons[<<1,-1>>], hexagons[<<0,1>>])
           /\ ~Adjoins(hexagons[<<0,1>>], hexagons[<<1,-1>>])

C10_Witness ==
    /\ ExpandedOriginThenEast
    /\ hexagon[1] = hexagons[<<1,0>>]
    /\ <<2,-1>> \in DOMAIN hexagons

\* in the tables adj the Hexagons at positions key_index and key_index + 1 of
\* the ring around h are set and in each other's table, at the key of adjoin_loop
RingPair(adj, h, key_index) ==
    /\ adj[h][adjoin_directions[key_index]] # NoHex
    /\ adj[h][adjoin_directions[(key_index % 6) + 1]] # NoHex
    /\ adj[adj[h][adjoin_directions[key_index]]][adjoin_loop[key_index]]
          = adj[h][adjoin_directions[(key_index % 6) + 1]]
    /\ adj[adj[h][adjoin_directions[(key_index % 6) + 1]]][Mul(adjoin_loop[key_index], INVERSE_COORD)]
          = adj[h][adjoin_directions[key_index]]

\* in the tables adj the six slots of h are set, each with a Hexagon of the
\* coordinate of h plus the key
SixAround(adj, h) ==
    \A key \in Keys : adj[h][key] # NoHex /\ Coord(adj[h][key]) = Add(Coord(h), key)

\* C18 (as claimed): when set_grid_pos has called expand_grid on a Hexagon h of
\* the grid, the six slots of h are set, the Hexagon in the slot of key has the
\* coordinate of h plus key and is the Hexagon self.hexagons holds for that
\* coordinate, and every two consecutive Hexagons of the ring around h, the
\* sixth and the first among them, are in each other's table.
C18_ExpandPostcondition ==
    [][call'[1] = "set_grid_pos"
          => /\ SixAround(adjoins', call'[4])
             /\ \A key \in Keys :
                   /\ Add(Coord(call'[4]), key) \in DOMAIN hexagons'
                   /\ hexagons'[Add(Coord(call'[4]), key)] = adjoins'[call'[4]][key]
             /\ \A key_index \in 1..6 : RingPair(adjoins', call'[4], key_index)]_vars

\* ------------------------------------------------------------ stacking (ApiSpec, WideApiSpec)

\* C3 (as claimed): for all chips p and q, p.covered_chip is q if and only if
\* q.stacked_chip is p.
C3_MutualInverse ==
    \A p \in AllChips : \A q \in AllChips :
        covered_chip[p] = q <=> stacked_chip[q] = p

\* C4: a call of unstack_chip on p raises ValueError exactly when p has a chip
\* on top of it, and raises nothing else; when it returns, p covers no chip and
\* the chip p covered does not have p on top of it.
C4_UnstackFailsIffCovered ==
    [][\A p \in PoolChips :
          call' = <<"unstack_chip", p, None, NoHex>>
              => /\ err' = "ValueError" <=> stacked_chip[p] # None
                 /\ err' \in {"none", "ValueError"}
                 /\ err' = "none"
                      => /\ covered_chip'[p] = None
                         /\ covered_chip[p] # None => stacked_chip'[covered_chip[p]] # p]_vars

\* p was lifted off the chip it still lies on
C4_Witness ==
    \E p \in PoolChips : \E q \in PoolChips :
        /\ call = <<"unstack_chip", p, None, NoHex>>
        /\ err = "none"
        /\ hexagon[p] = selection_hexagon[q]
        /\ hexagon[p] # NoHex
        /\ covered_chip[p] = None
        /\ stacked_chip[q] = None

\* the board: every chip's hexagon, selection hexagon and links, the grid, the
\* pool, the list of chips and the selected chip
board == <<hexagon, selection_hexagon, stacked_chip, covered_chip, hexagons, adjoins,
           chip_set, _next, chips, selected_chip>>

\* the last call moves chip p: unstack_chip, set_grid_pos or stack_on_chip
Moves(c, p) == c[1] \in {"unstack_chip", "set_grid_pos", "stack_on_chip"} /\ c[2] = p

\* C5 (as claimed): unstack_chip, set_grid_pos and stack_on_chip applied to a
\* chip that has a chip on top of it raise ValueError and leave the board as
\* it was.
C5_RejectedUnchanged ==
    [][\A p \in PoolChips :
          (Moves(call', p) /\ stacked_chip[p] # None)
              => err' = "ValueError" /\ UNCHANGED board]_vars

\* C5 (amended): unstack_chip, set_grid_pos and stack_on_chip applied to a chip
\* that has a chip on top of it leave the board as it was; they raise
\* ValueError, except stack_on_chip of the chip on itself, which raises nothing.
C5_RejectedUnchangedButSelf ==
    [][\A p \in PoolChips :
          (Moves(call', p) /\ stacked_chip[p] # None)
              => /\ UNCHANGED board
                 /\ err' = IF call'[1] = "stack_on_chip" /\ call'[3] = p
                           THEN "none" ELSE "ValueError"]_vars

\* a covered chip was to be stacked on another chip and the call was rejected
C5_Witness ==
    \E p \in PoolChips : \E q \in PoolChips :
        /\ call = <<"stack_on_chip", p, q, NoHex>>
        /\ p # q
        /\ stacked_chip[p] # None
        /\ covered_chip[stacked_chip[p]] = p
        /\ err = "ValueError"

\* the chip n links of stacked_chip above p, None when the chain ends before
RECURSIVE Above(_, _)
Above(p, n) ==
    IF p = None \/ n = 0 THEN p ELSE Above(stacked_chip[p], n - 1)

\* C17: after any calls of set_grid_pos, stack_on_chip and unstack_chip, the
\* rejected ones and stack_on_chip on a chip of the same stack among them, no
\* chip is reached from itself along stacked_chip links, and the links from any
\* chip end before there are as many of them as there are chips.
C17_Acyclic ==
    \A p \in AllChips :
        /\ \A n \in 1..Cardinality(AllChips) : Above(p, n) # p
        /\ Above(p, Cardinality(AllChips)) = None

\* chip 1, with chip 2 on top of it, was to be stacked on chip 2 and the call
\* was rejected
C17_Witness ==
    /\ call = <<"stack_on_chip", 1, 2, NoHex>>
    /\ err = "ValueError"
    /\ stacked_chip[1] = 2
    /\ covered_chip[2] = 1
    /\ stacked_chip[2] = None

\* ------------------------------------------------------------ the pool (PoolSpec)

RECURSIVE SumLen(_)
SumLen(cs) == IF cs = <<>> THEN 0 ELSE Len(Head(cs)) + SumLen(Tail(cs))

\* the chips left in the pool
Remaining == SumLen(chip_set)

\* C6: with lists of 1, 2, 2, 3 and 3 chips, whatever calls of next and peek
\* come between the calls of pop: each of the first 11 calls of pop returns a
\* chip and takes it out of the pool, every later call of pop returns None,
\* and from the 11th call of pop on peek (and next, which returns peek)
\* returns None.
C6_ElevenDraws ==
    /\ pops <= 11 => Remaining = 11 - pops
    /\ (call[1] = "pop" /\ pops <= 11) => ret \in PoolChips
    /\ (call[1] = "pop" /\ pops >= 12) => ret = None
    /\ pops >= 11 => /\ peek(Cur) = None
                     /\ call[1] \in {"peek", "next"} => ret = None

\* the 12th call of pop, with calls of next before it
C6_Witness ==
    /\ pops = 12
    /\ call[1] = "pop"
    /\ ret = None
    /\ chip_set = <<>>

\* the cursor is an index of chip_set and no list of chip_set is empty
CursorValid ==
    \/ chip_set = <<>>
    \/ /\ _next \in 0..(Len(chip_set) - 1)
       /\ \A i \in 1..Len(chip_set) : chip_set[i] # <<>>

\* C7: in every state the pool has no lists left or the cursor is an index of
\* chip_set and every list, the one at the cursor among them, is non-empty;
\* and a step removes a list exactly when it is a pop that takes the last chip
\* of the list at the cursor, and then removes that list alone.
C7_CursorOnNonEmptyGroup ==
    /\ []CursorValid
    /\ [][/\ Len(chip_set') < Len(chip_set)
             <=> (call'[1] = "pop" /\ chip_set # <<>> /\ Len(chip_set[_next + 1]) = 1)
          /\ Len(chip_set') < Len(chip_set)
             => chip_set' = DelGroup(chip_set, _next + 1)
          /\ Len(chip_set') <= Len(chip_set)]_vars

\* the last Ant was drawn at the last index: its list is gone and the cursor wrapped
C7_Witness ==
    /\ call[1] = "pop"
    /\ ret = 11
    /\ Len(chip_set) = 4
    /\ _next = 0
    /\ chip_set[1] = <<1>>

\* ------------------------------------------------------------ the board (Spec)

\* C8 (as claimed): no two chips have the same hexagon of the grid as their
\* hexagon, and no chip has more than one chip that covers it.
C8_OneStackPerCell ==
    \A p \in PoolChips : \A q \in PoolChips \ {p} :
        /\ ~(HasCoords(hexagon[p]) /\ hexagon[p] = hexagon[q])
        /\ ~(covered_chip[p] # None /\ covered_chip[p] = covered_chip[q])

\* ------------------------------------------------------------ the update step (Spec)

\* C11: with no chip selected, a click on a chip a that lies on the board and
\* has no chip on top makes a the selected chip; with a selected, a click that
\* resolves to another chip b with no chip on top makes a the chip on top of b
\* (b.stacked_chip is a, a.covered_chip is b), makes a's hexagon the selection
\* hexagon b had and keeps, and leaves no chip selected.
C11_SelectThenStack ==
    [][\A a \in PoolChips : \A b \in PoolChips \ {a} :
          /\ (selected_chip = None /\ call' = <<"chip", a, None, NoHex>>
                 /\ stacked_chip[a] = None)
                => selected_chip' = a
          /\ (selected_chip = a /\ call' = <<"chip", b, None, NoHex>>
                 /\ stacked_chip[a] = None /\ stacked_chip[b] = None)
                => /\ stacked_chip'[b] = a
                   /\ covered_chip'[a] = b
                   /\ hexagon'[a] = selection_hexagon[b]
                   /\ hexagon'[a] # NoHex
                   /\ selection_hexagon'[b] = selection_hexagon[b]
                   /\ selected_chip' = None
                   /\ err' = "none"]_vars

\* Chip 1 lies on chip 2 after a click on chip 2.  With two entries in
\* self.chips chip 1 was placed on a hexagon of the grid before chip 2 was
\* drawn, so it came into the hand by a click on it and not from the pool.
C11_Witness ==
    /\ chips = <<1, 2>>
    /\ call = <<"chip", 2, None, NoHex>>
    /\ HasCoords(hexagon[2])
    /\ stacked_chip[2] = 1
    /\ covered_chip[1] = 2
    /\ hexagon[1] = selection_hexagon[2]
    /\ selected_chip = None

\* chip p is in one of the lists of the pool
InPool(p) == \E i \in 1..Len(chip_set) : \E j \in 1..Len(chip_set[i]) : chip_set[i][j] = p

\* chip p lies on a hexagon of the grid or on the selection hexagon of another chip
OnBoard(p) ==
    \/ HasCoords(hexagon[p])
    \/ \E q \in PoolChips \ {p} : hexagon[p] # NoHex /\ hexagon[p] = selection_hexagon[q]

\* chip p is the selected chip and lies on the hexagon of the icon
HeldAtIcon(p) == selected_chip = p /\ hexagon[p] = hexagon[add_chip]

\* C12 (as claimed): self.chips lists the chips get_new_chip has put in the
\* hand; each of them is the selected chip or lies on a hexagon of the grid or
\* on the selection hexagon of another chip.
C12_DrawnIsHeldOrPlaced ==
    \A i \in 1..Len(chips) : chips[i] # selected_chip => OnBoard(chips[i])

\* C12 (amended): a chip in the hand at the icon stops being the selected chip
\* only when it is put on a hexagon of the grid or on another chip's selection
\* hexagon and popped from the pool, or when a click on the icon takes the next
\* chip of the pool in the hand and leaves it at the icon and in the pool; and
\* every chip of self.chips that is not selected is either on the board and
\* out of the pool, or at the icon, in the pool and without links.
C12_PlacedOrBackInPool ==
    /\ [](\A i \in 1..Len(chips) :
            chips[i] # selected_chip
                => \/ OnBoard(chips[i]) /\ ~InPool(chips[i])
                   \/ /\ hexagon[chips[i]] = hexagon[add_chip]
                      /\ InPool(chips[i])
                      /\ covered_chip[chips[i]] = None
                      /\ stacked_chip[chips[i]] = None)
    /\ [][\A p \in PoolChips :
             (HeldAtIcon(p) /\ selected_chip' # p)
                 => \/ OnBoard(p)' /\ ~InPool(p)' /\ call'[1] \in {"chip", "cell"}
                    \/ /\ call'[1] = "add_chip"
                       /\ selected_chip' \in PoolChips
                       /\ hexagon'[selected_chip'] = hexagon'[add_chip]
                       /\ hexagon'[p] = hexagon[p]
                       /\ chip_set' = chip_set
                       /\ InPool(p)]_vars

\* with chip 1 in the hand a click on the icon took chip 2 in the hand
C12_Witness ==
    /\ call[1] = "add_chip"
    /\ chips = <<1, 2>>
    /\ selected_chip = 2
    /\ hexagon[1] = hexagon[add_chip]
    /\ hexagon[2] = hexagon[add_chip]
    /\ InPool(1)

\* C14: with chip p selected, a click that resolves to a coordinate of
\* self.hexagons puts p on the Hexagon of that coordinate, which stays the
\* Hexagon of the coordinate; p then covers no chip, no chip has p on top of
\* it, no chip is selected and nothing is raised.
C14_TargetCellPlaces ==
    [][\A p \in PoolChips :
          (selected_chip = p /\ call'[1] = "cell")
              => /\ HasCoords(call'[4])
                 /\ hexagons[Coord(call'[4])] = call'[4]
                 /\ hexagons'[Coord(call'[4])] = call'[4]
                 /\ hexagon'[p] = call'[4]
                 /\ covered_chip'[p] = None
                 /\ \A q \in PoolChips : stacked_chip'[q] # p
                 /\ selected_chip' = None
                 /\ err' = "none"]_vars

\* chip 2 was put on (1,0) while chip 1 lies on (0,0)
C14_Witness ==
    /\ call[1] = "cell"
    /\ call[4] = hexagons[<<1, 0>>]
    /\ chips = <<1, 2>>
    /\ hexagon[2] = hexagons[<<1, 0>>]
    /\ hexagon[1] = hexagons[<<0, 0>>]
    /\ covered_chip[2] = None
    /\ stacked_chip[1] = None
    /\ selected_chip = None

\* C16: in every state and for every chip p, top_of_stack(p) returns (the
\* chain of stacked_chip links from p ends before it has as many links as there
\* are chips), the chip it returns has no chip on top of it, and top_of_stack
\* of that chip is that chip.
C16_TopOfStackIdempotent ==
    \A p \in AllChips :
        /\ stacked_chip[top_of_stack(Cur, p)] = None
        /\ top_of_stack(Cur, top_of_stack(Cur, p)) = top_of_stack(Cur, p)
        /\ stacked_chip[p] = None => top_of_stack(Cur, p) = p
        /\ stacked_chip[p] # None => top_of_stack(Cur, p) = top_of_stack(Cur, stacked_chip[p])

\* chip 3 lies on chip 2, which lies on chip 1
C16_Witness ==
    /\ stacked_chip[1] = 2
    /\ stacked_chip[2] = 3
    /\ stacked_chip[3] = None
    /\ hexagon[3] = selection_hexagon[2]
    /\ top_of_stack(Cur, 1) = 3

\* C19: in every state the clicks of run reach, the selected chip, if there is
\* one, has no chip on top of it, and no call has raised ValueError (nor any
\* other exception): unstack_chip, called by set_grid_pos for a cell click and
\* by stack_on_chip for a chip click, always finds the chip uncovered.
C19_SelectedIsUncovered ==
    /\ selected_chip # None => stacked_chip[selected_chip] = None
    /\ err = "none"

\* a click on chip 1, which has chip 2 on top of it, selected chip 2
C19_Witness ==
    /\ call = <<"chip", 1, None, NoHex>>
    /\ stacked_chip[1] = 2
    /\ covered_chip[2] = 1
    /\ selected_chip = 2

\* C20: in every state the clicks of run reach, a selected chip that is in
\* the pool is the chip peek returns, and no chip that lies on a hexagon of the
\* grid or on another chip's selection hexagon is in the pool, so that peek
\* does not return it; and the chip get_new_chip takes in the hand was in the
\* pool and not on the board.
C20_PoolAndBoardDisjoint ==
    /\ []((selected_chip \in PoolChips /\ InPool(selected_chip)) => peek(Cur) = selected_chip)
    /\ [](\A p \in PoolChips : OnBoard(p) => ~InPool(p) /\ peek(Cur) # p)
    /\ [][\A p \in PoolChips :
             (call'[1] = "add_chip" /\ Len(chips') > Len(chips) /\ selected_chip' = p)
                 => InPool(p) /\ ~OnBoard(p) /\ InPool(p)']_vars

\* chip 2 is on the board and out of the pool, chip 1 was left at the icon and
\* is in the pool, and chip 3 is in the hand and at the head of the pool
C20_Witness ==
    /\ chips = <<1, 2, 3>>
    /\ OnBoard(2)
    /\ ~InPool(2)
    /\ hexagon[1] = hexagon[add_chip]
    /\ InPool(1)
    /\ selected_chip = 3
    /\ peek(Cur) = 3

\* ------------------------------------------------------------ the empty pool (DrawSpec)

\* C15: a click on the icon when the pool has no list left raises nothing and
\* leaves the selected chip (a chip or None), self.chips, every chip's hexagon,
\* selection hexagon and links, the grid and the lists and cursor of the pool
\* as they were.
C15_ExhaustedDrawIgnored ==
    [][(call'[1] = "add_chip" /\ chip_set = <<>>)
          => /\ err' = "none"
             /\ peek(Cur) = None
             /\ UNCHANGED board]_vars

\* the icon was clicked with the pool empty and a chip of the board in the hand
C15_Witness ==
    /\ call[1] = "add_chip"
    /\ chip_set = <<>>
    /\ selected_chip \in PoolChips
    /\ HasCoords(hexagon[selected_chip])
    /\ \A p \in PoolChips : HasCoords(hexagon[p])

\* the icon was clicked with the pool empty and no chip in the hand
C15_WitnessIdle ==
    /\ call[1] = "add_chip"
    /\ chip_set = <<>>
    /\ selected_chip = None

\* ------------------------------------------------------------ the update step (UpdateSpec)

\* chip p came into the hand from the pool: it is the selected chip, at the
\* icon, and the chip peek returns
HeldFromPool(p) == HeldAtIcon(p) /\ peek(Cur) = p

\* every chip's hexagon, selection hexagon and links, the list of chips and the grid
pieces == <<hexagon, selection_hexagon, stacked_chip, covered_chip, chips, hexagons, adjoins>>

====
